---- MODULE Spec2Model ----
(***************************************************************************)
(* Session guard of the blogging site: the Next.js middleware that lets a  *)
(* request through when it carries an access_token cookie, renews the      *)
(* access token with the refresh_token cookie when it does not, and        *)
(* redirects to /auth otherwise.                                           *)
(***************************************************************************)
EXTENDS Integers, Sequences, FiniteSets, TLC

(***************************************************************************)
(* Bounds                                                                  *)
(***************************************************************************)
\* longest run of characters that follows a path prefix in a requested path
MaxSuffix == 2

\* submissions of the reset-password form that can be in flight together
MaxInFlight == 2

\* strings of the text prop of Typewriter, and characters of one of them
MaxWords == 2
MaxWordLen == 2

(***************************************************************************)
(* Values                                                                  *)
(***************************************************************************)
\* the JavaScript value undefined: a cookie that is not in the request, a
\* field that is not in a JSON body
Undefined == "<undefined>"

\* the two invocations of the guard that can be in flight at the same time
Slots == {"A", "B"}

\* cookie values of the client: "" is a cookie sent with an empty value
AccessTokens  == {"", "t1", "t2"}
RefreshTokens == {"", "r1", "r2"}

\* characters of a requested path after its prefix
PathChars == {"/", "a", "%", "+"}

MyBlogs == <<"/", "m", "y", "-", "b", "l", "o", "g", "s">>
Account == <<"/", "a", "c", "c", "o", "u", "n", "t">>
Auth    == <<"/", "a", "u", "t", "h">>

\* the invocation that serves the requests of a client one after the other
Sequential == {"A"}

\* the paths of the requests that are in flight at the same time
ConcurrentPaths == {MyBlogs, Account \o <<"/", "a">>}

SeqsUpTo(S, n) == UNION {[1..k -> S] : k \in 0..n}

\* the paths a client requests: some matched by the guard, some not
Paths ==
    {q \in {p \o s : p \in {MyBlogs, Account, Auth, <<>>}, s \in SeqsUpTo(PathChars, MaxSuffix)} :
        q # <<>> /\ q[1] = "/"}

(***************************************************************************)
(* config.matcher: '/my-blogs/:path*' and '/account/:path*'                *)
(***************************************************************************)
HasPrefix(p, pre) == Len(p) >= Len(pre) /\ SubSeq(p, 1, Len(pre)) = pre

\* :path* is zero or more non-empty segments, each introduced by a slash,
\* and the pattern tolerates one trailing slash
MatchesPattern(p, pre) ==
    /\ HasPrefix(p, pre)
    /\ LET s == SubSeq(p, Len(pre) + 1, Len(p))
       IN  IF s = <<>> THEN TRUE
           ELSE /\ s[1] = "/"
                /\ \A k \in 1..(Len(s) - 1) : ~(s[k] = "/" /\ s[k + 1] = "/")

matcher(p) == IF MatchesPattern(p, MyBlogs) THEN TRUE ELSE MatchesPattern(p, Account)

(***************************************************************************)
(* URLSearchParams: searchParams.set serialises the value, the reader of   *)
(* the URL parses it back                                                  *)
(***************************************************************************)
\* application/x-www-form-urlencoded serialisation of one character
EncodeChar(c) ==
    CASE c = "/" -> <<"%", "2", "F">>
      [] c = "%" -> <<"%", "2", "5">>
      [] c = "+" -> <<"%", "2", "B">>
      [] c = " " -> <<"+">>
      [] OTHER   -> <<c>>

RECURSIVE UrlEncode(_)
UrlEncode(s) == IF s = <<>> THEN <<>> ELSE EncodeChar(Head(s)) \o UrlEncode(Tail(s))

\* the character a percent escape stands for
Unescape(h1, h2) ==
    CASE h1 = "2" /\ h2 = "F" -> "/"
      [] h1 = "2" /\ h2 = "5" -> "%"
      [] h1 = "2" /\ h2 = "B" -> "+"
      [] OTHER -> "?"

RECURSIVE UrlDecode(_)
UrlDecode(s) ==
    IF s = <<>> THEN <<>>
    ELSE IF Head(s) = "+" THEN <<" ">> \o UrlDecode(Tail(s))
    ELSE IF Head(s) = "%" /\ Len(s) >= 3 /\ Unescape(s[2], s[3]) # "?"
         THEN <<Unescape(s[2], s[3])>> \o UrlDecode(SubSeq(s, 4, Len(s)))
    ELSE <<Head(s)>> \o UrlDecode(Tail(s))

(***************************************************************************)
(* Responses of the guard                                                  *)
(***************************************************************************)
NoUrl == [pathname |-> <<>>, next |-> <<>>]

\* no response yet
NoResponse == [kind |-> "none", cookies |-> {}, url |-> NoUrl]

\* NextResponse.next()
NextResponse_next == [kind |-> "next", cookies |-> {}, url |-> NoUrl]

\* NextResponse.redirect(url)
NextResponse_redirect(url) == [kind |-> "redirect", cookies |-> {}, url |-> url]

\* response.cookies.set(name, value, options); a value of undefined is
\* written as the empty string
CookiesSet(response, name, value, options) ==
    [response EXCEPT !.cookies =
        {c \in @ : c.name # name} \cup
        {[name |-> name, value |-> IF value = Undefined THEN "" ELSE value,
          path |-> options.path, secure |-> options.secure,
          sameSite |-> options.sameSite]}]

\* the value of the `next` parameter as the reader of a redirect URL sees it
NextParam(response) == UrlDecode(response.url.next)

\* JavaScript truthiness of a string or undefined
Truthy(v) == v # Undefined /\ v # ""

(***************************************************************************)
(* The renewal endpoint as the guard sees it                               *)
(***************************************************************************)
\* bodies of a response: not JSON, the JSON value null, or a JSON object
\* with or without the fields access_token and detail
NoBody == [kind |-> "none", access_token |-> Undefined, detail |-> Undefined]

Bodies ==
    {[kind |-> "notjson", access_token |-> Undefined, detail |-> Undefined],
     [kind |-> "null", access_token |-> Undefined, detail |-> Undefined]} \cup
    {[kind |-> "object", access_token |-> t, detail |-> Undefined] :
        t \in AccessTokens \cup {Undefined}} \cup
    {[kind |-> "object", access_token |-> Undefined, detail |-> "Invalid refresh token"]}

\* fetch has not settled
NoFetch == [st |-> "none", ok |-> FALSE, body |-> NoBody]

\* fetch rejects (connection refused, invalid URL) or resolves with a response
FetchOutcomes ==
    {[st |-> "threw", ok |-> FALSE, body |-> NoBody]} \cup
    {[st |-> "response", ok |-> o, body |-> b] : o \in BOOLEAN, b \in Bodies}

\* the request of the renewal call
RefreshRequest(refreshToken) ==
    [method |-> "POST", url |-> "/auth/refresh", contentType |-> "application/json",
     body |-> [refresh_token |-> refreshToken]]

(***************************************************************************)
(* middleware(request)                                                     *)
(***************************************************************************)
\* variant: the path is appended to the URL without being serialised
loginUrl_Raw(pathname) == [pathname |-> Auth, next |-> pathname]

\* new URL('/auth', request.url) with searchParams.set('next', pathname)
loginUrl(pathname) == [pathname |-> Auth, next |-> UrlEncode(pathname)]

\* the else branch: no tokens, redirect to login
RedirectNoTokens(pathname) == NextResponse_redirect(loginUrl(pathname))

\* variant: the catch block redirects to login without the next parameter
RedirectRefreshFailed_NoNext(pathname) ==
    NextResponse_redirect([pathname |-> Auth, next |-> <<>>])

\* the catch block: the refresh failed, redirect to login
RedirectRefreshFailed(pathname) == NextResponse_redirect(loginUrl(pathname))

\* variant: the cookie is written with sameSite lax
responseWithToken_Lax(newAccessToken) ==
    CookiesSet(NextResponse_next, "access_token", newAccessToken,
               [path |-> <<"/">>, secure |-> TRUE, sameSite |-> "lax"])

\* variant: the renewed token is also written over the refresh_token cookie
responseWithToken_Rotates(newAccessToken) ==
    CookiesSet(CookiesSet(NextResponse_next, "access_token", newAccessToken,
                          [path |-> <<"/">>, secure |-> TRUE, sameSite |-> "strict"]),
               "refresh_token", newAccessToken,
               [path |-> <<"/">>, secure |-> TRUE, sameSite |-> "strict"])

\* the response that carries the renewed access token
responseWithToken(newAccessToken) ==
    CookiesSet(NextResponse_next, "access_token", newAccessToken,
               [path |-> <<"/">>, secure |-> TRUE, sameSite |-> "strict"])

\* variant: the refresh token is tried before the access token is looked at
Enter_RefreshFirst(pathname, accessToken, refreshToken) ==
    IF Truthy(refreshToken)
    THEN [pc |-> "fetch", response |-> NoResponse,
          calls |-> <<RefreshRequest(refreshToken)>>]
    ELSE IF Truthy(accessToken)
    THEN [pc |-> "done", response |-> NextResponse_next, calls |-> <<>>]
    ELSE [pc |-> "done", response |-> NextResponse_redirect(loginUrl(pathname)),
          calls |-> <<>>]

\* variant: the access token is looked into, and one that is known to be
\* out of date is treated as missing
Enter_Inspects(pathname, accessToken, refreshToken) ==
    IF ~Truthy(accessToken) \/ accessToken = "t2"
    THEN IF Truthy(refreshToken) /\ accessToken # "t2"
         THEN [pc |-> "fetch", response |-> NoResponse,
               calls |-> <<RefreshRequest(refreshToken)>>]
         ELSE [pc |-> "done", response |-> RedirectNoTokens(pathname), calls |-> <<>>]
    ELSE [pc |-> "done", response |-> NextResponse_next, calls |-> <<>>]

\* from the entry of middleware to its first await or its return
Enter(pathname, accessToken, refreshToken) ==
    IF ~Truthy(accessToken)
    THEN IF Truthy(refreshToken)
         THEN [pc |-> "fetch", response |-> NoResponse,
               calls |-> <<RefreshRequest(refreshToken)>>]
         ELSE [pc |-> "done", response |-> RedirectNoTokens(pathname), calls |-> <<>>]
    ELSE [pc |-> "done", response |-> NextResponse_next, calls |-> <<>>]

\* variant: a rejected fetch is tried again
AfterFetch_Retry(pathname, outcome) ==
    IF outcome.st = "threw"
    THEN [pc |-> "fetch", response |-> NoResponse,
          calls |-> <<[method |-> "POST", url |-> "/auth/refresh",
                       contentType |-> "application/json",
                       body |-> [refresh_token |-> Undefined]]>>]
    ELSE [pc |-> "json", response |-> NoResponse, calls |-> <<>>]

\* variant: a rejected fetch lets the request through
AfterFetch_FailOpen(pathname, outcome) ==
    IF outcome.st = "threw"
    THEN [pc |-> "done", response |-> NextResponse_next, calls |-> <<>>]
    ELSE [pc |-> "json", response |-> NoResponse, calls |-> <<>>]

\* await fetch(...) settles: a rejection goes to the catch block
AfterFetch(pathname, outcome) ==
    IF outcome.st = "threw"
    THEN [pc |-> "done", response |-> RedirectRefreshFailed(pathname), calls |-> <<>>]
    ELSE [pc |-> "json", response |-> NoResponse, calls |-> <<>>]

\* variant: the body is used outside the try block, so that the TypeError of
\* a null body leaves middleware
AfterJson_NullEscapes(pathname, fetched) ==
    IF fetched.body.kind = "notjson"
    THEN [pc |-> "done", response |-> RedirectRefreshFailed(pathname), calls |-> <<>>]
    ELSE IF fetched.body.kind = "null"
    THEN [pc |-> "threw", response |-> NoResponse, calls |-> <<>>]
    ELSE IF ~fetched.ok
    THEN [pc |-> "done", response |-> RedirectRefreshFailed(pathname), calls |-> <<>>]
    ELSE [pc |-> "done", response |-> responseWithToken(fetched.body.access_token),
          calls |-> <<>>]

\* await response.json() settles, up to the return
AfterJson(pathname, fetched) ==
    IF fetched.body.kind = "notjson"
    THEN \* response.json() rejects
         [pc |-> "done", response |-> RedirectRefreshFailed(pathname), calls |-> <<>>]
    ELSE IF fetched.body.kind = "null"
    THEN \* data.detail or data.access_token of null is a TypeError
         [pc |-> "done", response |-> RedirectRefreshFailed(pathname), calls |-> <<>>]
    ELSE IF ~fetched.ok
    THEN \* throw new Error(data.detail || 'Failed to refresh token')
         [pc |-> "done", response |-> RedirectRefreshFailed(pathname), calls |-> <<>>]
    ELSE [pc |-> "done", response |-> responseWithToken(fetched.body.access_token),
          calls |-> <<>>]

(***************************************************************************)
(* State                                                                   *)
(***************************************************************************)
VARIABLES
    jar,      \* the client's cookies: access_token and refresh_token
    inv,      \* the invocations of middleware: position, request, fetch result, response
    calls,    \* the calls each invocation has made to the renewal endpoint
    location, \* the URL the client is at: its path and its next parameter
    navbar,   \* Navbar of the home page: isAuthenticated
    authPage, \* AuthPage: position of handleLogin, its fetch result, error, message
    loggedOut, \* history: handleLogout has run and no handleLogin has succeeded since
    resetPage, \* ResetPasswordPage: its state, its submissions in flight, its timers
    typewriter \* Typewriter: its props, its state, its timers

vars == <<jar, inv, calls, location, navbar, authPage, loggedOut, resetPage, typewriter>>

\* the state of the pages, which the guard does not touch
pages == <<navbar, authPage, loggedOut, resetPage, typewriter>>

\* the state that the pages of a session do not touch
others == <<inv, calls, resetPage, typewriter>>

\* the JavaScript value null
Null == "<null>"

Home == <<"/">>

\* AuthPage as it is mounted
AuthPageMounted ==
    [pc |-> "idle", live |-> TRUE, fetched |-> NoFetch, error |-> Null, message |-> Null]

\* a new instance of AuthPage is mounted: a handleLogin still in flight
\* belongs to the instance that is gone, and its setError is without effect
MountAuthPage(a) == [a EXCEPT !.live = (a.pc = "idle"), !.error = Null, !.message = Null]

\* err.message of what a handler catches when fetch is rejected, when the
\* body is not JSON, when the body is null
FetchFailedMessage == "Failed to fetch"
JsonFailedMessage  == "Unexpected token"
NullBodyMessage    == "Cannot read properties of null"

(***************************************************************************)
(* ResetPasswordPage: its values                                           *)
(***************************************************************************)
\* what URLSearchParams.get gives for the three parameters of the fragment:
\* null when the parameter is not there, "" when it is there without value
Hashes ==
    [access_token : {Null, "", "a1"},
     refresh_token : {Null, "", "r1"},
     error_description : {Null, "", "Link+expired"}]

NoHash == [access_token |-> Null, refresh_token |-> Null, error_description |-> Null]

\* errorDescription.replace(/\+/g, ' ')
PlusToSpace(d) == IF d = "Link+expired" THEN "Link expired" ELSE d

\* JavaScript truthiness of a string or null
TruthyOrNull(v) == v # Null /\ v # ""

\* what the user types into the two password fields
Typed == {"p", "q"}

\* bodies of the reset-password endpoint
ResetBodies ==
    {[kind |-> k, detail |-> Undefined, message |-> Undefined] : k \in {"notjson", "null", "object"}}
    \cup {[kind |-> "object", detail |-> "Token expired", message |-> Undefined],
          [kind |-> "object", detail |-> Undefined, message |-> "Password updated"]}

ResetOutcomes ==
    {[st |-> "threw", ok |-> FALSE, body |-> CHOOSE b \in ResetBodies : b.kind = "notjson"]}
    \cup {[st |-> "response", ok |-> o, body |-> b] : o \in BOOLEAN, b \in ResetBodies}

NoResetFetch ==
    [st |-> "none", ok |-> FALSE, body |-> CHOOSE b \in ResetBodies : b.kind = "notjson"]

NoResetRequest == [access_token |-> Null, refresh_token |-> Null, new_password |-> ""]

\* a submission that is not in flight
NoSubmission == [pc |-> "idle", request |-> NoResetRequest, fetched |-> NoResetFetch]

MismatchMessage     == "Passwords do not match."
NoTokenMessage      == "No reset token found. Please use the link from your email."
BadLinkMessage      == "Invalid or missing reset token information in URL."
ResetFailedMessage  == "Failed to reset password."
ResetDoneMessage    == "Password has been reset successfully. You can now log in with your new password."

\* the page as it is rendered first, before its effect has run
ResetPageMounted(hash) ==
    [mounted |-> TRUE, hash |-> hash, isVerifying |-> TRUE,
     accessToken |-> Null, refreshToken |-> Null,
     password |-> "", confirmPassword |-> "",
     error |-> Null, message |-> Null,
     subs |-> [k \in 1..MaxInFlight |-> NoSubmission],
     timers |-> 0]

(***************************************************************************)
(* Typewriter: its values                                                  *)
(***************************************************************************)
TextChars == {"a", "b"}

\* the strings that the text prop can hold, and the text props
Words == SeqsUpTo(TextChars, MaxWordLen)
Texts == UNION {[1..n -> Words] : n \in 1..MaxWords}

\* no timeout is pending
NoTimer == [armed |-> FALSE, currentText |-> <<>>, currentIndex |-> 0, isDeleting |-> FALSE]

\* the timeout of the effect, with the state that its callback closes over
Timeout(t) ==
    [armed |-> TRUE, currentText |-> t.currentText,
     currentIndex |-> t.currentIndex, isDeleting |-> t.isDeleting]

\* the component after its first render and its effects
TypewriterMounted(text) ==
    [text |-> text, currentText |-> <<>>, currentIndex |-> 0,
     isDeleting |-> FALSE, showCursor |-> TRUE,
     timeout |-> [armed |-> TRUE, currentText |-> <<>>, currentIndex |-> 0, isDeleting |-> FALSE],
     waits |-> 0]

Idle == [pc |-> "idle", pathname |-> <<>>, accessToken |-> Undefined,
         refreshToken |-> Undefined, fetched |-> NoFetch, response |-> NoResponse]

Init ==
    /\ jar \in [access_token : AccessTokens \cup {Undefined},
                refresh_token : RefreshTokens \cup {Undefined}]
    /\ inv = [i \in Slots |-> Idle]
    /\ calls = [i \in Slots |-> <<>>]
    /\ location = [pathname |-> Home, next |-> <<>>]
    /\ navbar = [isAuthenticated |-> Truthy(jar.access_token)]
    /\ authPage = AuthPageMounted
    /\ loggedOut = FALSE
    /\ resetPage = [ResetPageMounted(NoHash) EXCEPT !.mounted = FALSE]
    /\ typewriter = TypewriterMounted(<< <<"a", "b">> >>)

\* variant: an invocation that finds a renewal with the same refresh token in
\* flight waits for it and makes no call of its own
Middleware_Dedup(i, p) ==
    /\ inv[i].pc = "idle"
    /\ matcher(p)
    /\ LET accessToken == jar.access_token
           refreshToken == jar.refresh_token
           r == Enter(p, accessToken, refreshToken)
           shared == \E j \in Slots \ {i} :
                        /\ inv[j].pc \in {"fetch", "json"}
                        /\ inv[j].refreshToken = refreshToken
       IN  /\ inv' = [inv EXCEPT ![i] = [pc |-> r.pc, pathname |-> p,
                                         accessToken |-> accessToken,
                                         refreshToken |-> refreshToken,
                                         fetched |-> NoFetch, response |-> r.response]]
           /\ calls' = [calls EXCEPT ![i] = IF shared THEN @ ELSE @ \o r.calls]
    /\ UNCHANGED <<jar, location, pages>>

\* a request for a matched path reaches middleware with the client's cookies
Middleware(i, p) ==
    /\ inv[i].pc = "idle"
    /\ matcher(p)
    /\ LET accessToken == jar.access_token
           refreshToken == jar.refresh_token
           r == Enter(p, accessToken, refreshToken)
       IN  /\ inv' = [inv EXCEPT ![i] = [pc |-> r.pc, pathname |-> p,
                                         accessToken |-> accessToken,
                                         refreshToken |-> refreshToken,
                                         fetched |-> NoFetch, response |-> r.response]]
           /\ calls' = [calls EXCEPT ![i] = @ \o r.calls]
    /\ UNCHANGED <<jar, location, pages>>

\* the renewal call of invocation i settles
FetchSettles(i, outcome) ==
    /\ inv[i].pc = "fetch"
    /\ LET r == AfterFetch(inv[i].pathname, outcome)
       IN  /\ inv' = [inv EXCEPT ![i].pc = r.pc, ![i].fetched = outcome,
                                 ![i].response = r.response]
           /\ calls' = [calls EXCEPT ![i] = @ \o r.calls]
    /\ UNCHANGED <<jar, location, pages>>

\* variant: a token that another invocation has already been given is not
\* given out a second time
JsonSettles_Once(i) ==
    /\ inv[i].pc = "json"
    /\ LET used == \E j \in Slots \ {i} :
                      /\ inv[j].pc = "done"
                      /\ inv[j].response.cookies # {}
                      /\ inv[j].fetched = inv[i].fetched
           r == IF used
                THEN [pc |-> "done", response |-> RedirectRefreshFailed(inv[i].pathname),
                      calls |-> <<>>]
                ELSE AfterJson(inv[i].pathname, inv[i].fetched)
       IN  /\ inv' = [inv EXCEPT ![i].pc = r.pc, ![i].response = r.response]
           /\ calls' = [calls EXCEPT ![i] = @ \o r.calls]
    /\ UNCHANGED <<jar, location, pages>>

\* the body of the renewal response has been read
JsonSettles(i) ==
    /\ inv[i].pc = "json"
    /\ LET r == AfterJson(inv[i].pathname, inv[i].fetched)
       IN  /\ inv' = [inv EXCEPT ![i].pc = r.pc, ![i].response = r.response]
           /\ calls' = [calls EXCEPT ![i] = @ \o r.calls]
    /\ UNCHANGED <<jar, location, pages>>

\* the client receives the response of invocation i and stores its cookies
Deliver(i) ==
    /\ inv[i].pc = "done"
    /\ jar' = [n \in DOMAIN jar |->
                 IF \E c \in inv[i].response.cookies : c.name = n
                 THEN (CHOOSE c \in inv[i].response.cookies : c.name = n).value
                 ELSE jar[n]]
    /\ inv' = [inv EXCEPT ![i] = Idle]
    /\ calls' = [calls EXCEPT ![i] = <<>>]
    /\ location' = IF inv[i].response.kind = "redirect"
                   THEN inv[i].response.url
                   ELSE [pathname |-> inv[i].pathname, next |-> <<>>]
    /\ authPage' = IF inv[i].response.kind = "redirect"
                   THEN MountAuthPage(authPage)
                   ELSE authPage
    /\ UNCHANGED <<navbar, loggedOut, resetPage, typewriter>>

(***************************************************************************)
(* ResetPasswordPage: its effect and its handlers                          *)
(***************************************************************************)
\* the form is rendered
FormRendered(r) ==
    /\ r.mounted
    /\ ~r.isVerifying
    /\ ~TruthyOrNull(r.error)
    /\ ~TruthyOrNull(r.message)

\* the state of the page after its useEffect
AfterVerify(r) ==
    IF TruthyOrNull(r.hash.error_description)
    THEN [r EXCEPT !.error = PlusToSpace(r.hash.error_description), !.isVerifying = FALSE]
    ELSE IF TruthyOrNull(r.hash.access_token) /\ TruthyOrNull(r.hash.refresh_token)
    THEN [r EXCEPT !.accessToken = r.hash.access_token,
                   !.refreshToken = r.hash.refresh_token,
                   !.isVerifying = FALSE]
    ELSE [r EXCEPT !.error = BadLinkMessage, !.isVerifying = FALSE]

\* useEffect(() => {...}, []) of ResetPasswordPage
VerifyEffect ==
    /\ resetPage.mounted
    /\ resetPage.isVerifying
    /\ resetPage' = AfterVerify(resetPage)
    /\ UNCHANGED <<jar, inv, calls, location, navbar, authPage, loggedOut, typewriter>>

\* onChange of the two password fields
SetPassword(v) ==
    /\ FormRendered(resetPage)
    /\ resetPage' = [resetPage EXCEPT !.password = v]
    /\ UNCHANGED <<jar, inv, calls, location, navbar, authPage, loggedOut, typewriter>>

SetConfirmPassword(v) ==
    /\ FormRendered(resetPage)
    /\ resetPage' = [resetPage EXCEPT !.confirmPassword = v]
    /\ UNCHANGED <<jar, inv, calls, location, navbar, authPage, loggedOut, typewriter>>

\* handleResetPassword that reports the mismatch and sends the request anyway
AfterSubmit_SendsAnyway(r, k) ==
    LET cleared == [r EXCEPT !.error = Null, !.message = Null]
        request == [pc |-> "fetch",
                    request |-> [access_token |-> r.accessToken,
                                 refresh_token |-> r.refreshToken,
                                 new_password |-> r.password],
                    fetched |-> NoResetFetch]
    IN  IF r.password # r.confirmPassword
        THEN [cleared EXCEPT !.error = MismatchMessage, !.subs[k] = request]
        ELSE IF ~TruthyOrNull(r.accessToken) \/ ~TruthyOrNull(r.refreshToken)
        THEN [cleared EXCEPT !.error = NoTokenMessage]
        ELSE [cleared EXCEPT !.subs[k] = request]

\* handleResetPassword up to its await: the page after it, with the request
\* it sends put into slot k when it sends one
AfterSubmit(r, k) ==
    LET cleared == [r EXCEPT !.error = Null, !.message = Null]
    IN  IF r.password # r.confirmPassword
        THEN [cleared EXCEPT !.error = MismatchMessage]
        ELSE IF ~TruthyOrNull(r.accessToken) \/ ~TruthyOrNull(r.refreshToken)
        THEN [cleared EXCEPT !.error = NoTokenMessage]
        ELSE [cleared EXCEPT !.subs[k] =
                 [pc |-> "fetch",
                  request |-> [access_token |-> r.accessToken,
                               refresh_token |-> r.refreshToken,
                               new_password |-> r.password],
                  fetched |-> NoResetFetch]]

\* the form is submitted: both fields are required
handleResetPassword(k) ==
    /\ FormRendered(resetPage)
    /\ resetPage.password # "" /\ resetPage.confirmPassword # ""
    /\ resetPage.subs[k].pc = "idle"
    /\ \A j \in 1..(k - 1) : resetPage.subs[j].pc # "idle"
    /\ resetPage' = AfterSubmit(resetPage, k)
    /\ UNCHANGED <<jar, inv, calls, location, navbar, authPage, loggedOut, typewriter>>

\* setError(err.message) of submission k, without effect once the page is gone
ResetFails(r, k, msg) ==
    [r EXCEPT !.subs[k] = NoSubmission, !.error = IF r.mounted THEN msg ELSE @]

\* await fetch(.../auth/reset-password) of submission k settles
ResetFetchSettles(k, outcome) ==
    /\ resetPage.subs[k].pc = "fetch"
    /\ resetPage' = IF outcome.st = "threw"
                    THEN ResetFails(resetPage, k, FetchFailedMessage)
                    ELSE [resetPage EXCEPT !.subs[k].pc = "json", !.subs[k].fetched = outcome]
    /\ UNCHANGED <<jar, inv, calls, location, navbar, authPage, loggedOut, typewriter>>

\* the message that handleResetPassword throws once response.json() has
\* settled, or Null when it goes on to setMessage
ResetError(fetched) ==
    IF fetched.body.kind = "notjson" THEN JsonFailedMessage
    ELSE IF fetched.body.kind = "null" THEN NullBodyMessage
    ELSE IF ~fetched.ok
    THEN IF Truthy(fetched.body.detail) THEN fetched.body.detail ELSE ResetFailedMessage
    ELSE Null

\* await response.json() of submission k settles, up to the end of the handler
ResetJsonSettles(k) ==
    /\ resetPage.subs[k].pc = "json"
    /\ LET f == resetPage.subs[k].fetched
           msg == ResetError(f)
       IN  resetPage' =
             IF msg # Null
             THEN ResetFails(resetPage, k, msg)
             ELSE [resetPage EXCEPT
                     !.subs[k] = NoSubmission,
                     !.message = IF ~resetPage.mounted THEN @
                                 ELSE IF Truthy(f.body.message) THEN f.body.message
                                 ELSE ResetDoneMessage,
                     !.timers = @ + 1]
    /\ UNCHANGED <<jar, inv, calls, location, navbar, authPage, loggedOut, typewriter>>

\* setTimeout(() => router.push('/auth'), 3000) fires
ResetTimerFires ==
    /\ resetPage.timers > 0
    /\ resetPage' = [resetPage EXCEPT !.timers = @ - 1, !.mounted = FALSE]
    /\ location' = [pathname |-> Auth, next |-> <<>>]
    /\ authPage' = MountAuthPage(authPage)
    /\ UNCHANGED <<jar, inv, calls, navbar, loggedOut, typewriter>>

(***************************************************************************)
(* Typewriter: its effects                                                 *)
(***************************************************************************)
\* s.slice(0, n) and s.slice(0, -1)
SliceTo(s, n) == IF n >= Len(s) THEN s ELSE SubSeq(s, 1, n)
SliceLast(s)  == IF s = <<>> THEN s ELSE SubSeq(s, 1, Len(s) - 1)

\* the dependencies of the effect that the component's own state holds
Deps(t) == <<t.currentText, t.currentIndex, t.isDeleting>>

\* the render that follows a state update: the effect runs again, clearing
\* its timeout and setting a new one, only when a dependency has changed
Rendered(before, after) ==
    IF Deps(after) = Deps(before) THEN after
    ELSE [after EXCEPT !.timeout = Timeout(after)]

\* the callback of the timeout whose index never wraps
Ticked_NoWrap(t) ==
    LET c == t.timeout
        current == t.text[c.currentIndex + 1]
        fired == [t EXCEPT !.timeout = NoTimer]
    IN  IF c.isDeleting
        THEN IF c.currentText = <<>>
             THEN [fired EXCEPT !.currentText = SliceLast(t.currentText),
                                !.isDeleting = FALSE,
                                !.currentIndex = t.currentIndex + 1]
             ELSE [fired EXCEPT !.currentText = SliceLast(t.currentText)]
        ELSE IF c.currentText = current
             THEN [fired EXCEPT !.currentText = SliceTo(current, Len(c.currentText) + 1),
                                !.waits = @ + 1]
             ELSE [fired EXCEPT !.currentText = SliceTo(current, Len(c.currentText) + 1)]

\* the callback of the timeout: the state after its updates
Ticked(t) ==
    LET c == t.timeout
        current == t.text[c.currentIndex + 1]
        fired == [t EXCEPT !.timeout = NoTimer]
    IN  IF c.isDeleting
        THEN IF c.currentText = <<>>
             THEN [fired EXCEPT !.currentText = SliceLast(t.currentText),
                                !.isDeleting = FALSE,
                                !.currentIndex = (t.currentIndex + 1) % Len(t.text)]
             ELSE [fired EXCEPT !.currentText = SliceLast(t.currentText)]
        ELSE IF c.currentText = current
             THEN [fired EXCEPT !.currentText = SliceTo(current, Len(c.currentText) + 1),
                                !.waits = @ + 1]
             ELSE [fired EXCEPT !.currentText = SliceTo(current, Len(c.currentText) + 1)]

\* the timeout of the effect fires
TickFires ==
    /\ typewriter.timeout.armed
    /\ typewriter' = Rendered(typewriter, Ticked(typewriter))
    /\ UNCHANGED <<jar, inv, calls, location, navbar, authPage, loggedOut, resetPage>>

\* setTimeout(() => setIsDeleting(true), waitTime) fires
WaitFires ==
    /\ typewriter.waits > 0
    /\ typewriter' = Rendered(typewriter,
                               [typewriter EXCEPT !.waits = @ - 1, !.isDeleting = TRUE])
    /\ UNCHANGED <<jar, inv, calls, location, navbar, authPage, loggedOut, resetPage>>

\* the interval of the cursor fires
CursorBlinks ==
    /\ typewriter' = [typewriter EXCEPT !.showCursor = ~@]
    /\ UNCHANGED <<jar, inv, calls, location, navbar, authPage, loggedOut, resetPage>>

(***************************************************************************)
(* The client: cookies, navigation, AuthPage.handleLogin,                  *)
(* Navbar.handleLogout                                                     *)
(***************************************************************************)
\* the paths the client visits in a session
SessionPaths == {Home, Auth, MyBlogs, Account \o <<"/", "a">>}

\* Cookies.set of js-cookie writes String(value)
JsCookieWrite(v) == IF v = Undefined THEN "undefined" ELSE v

\* bodies of the login endpoint
LoginBodies ==
    {[kind |-> "notjson", access_token |-> Undefined, refresh_token |-> Undefined,
      detail |-> Undefined],
     [kind |-> "null", access_token |-> Undefined, refresh_token |-> Undefined,
      detail |-> Undefined],
     [kind |-> "object", access_token |-> Undefined, refresh_token |-> Undefined,
      detail |-> Undefined],
     [kind |-> "object", access_token |-> Undefined, refresh_token |-> Undefined,
      detail |-> "Invalid credentials"],
     [kind |-> "object", access_token |-> "t1", refresh_token |-> "r1",
      detail |-> Undefined],
     [kind |-> "object", access_token |-> "t2", refresh_token |-> "r2",
      detail |-> Undefined]}

LoginOutcomes ==
    {[st |-> "threw", ok |-> FALSE, body |-> CHOOSE b \in LoginBodies : b.kind = "notjson"]}
    \cup {[st |-> "response", ok |-> o, body |-> b] : o \in BOOLEAN, b \in LoginBodies}

\* e.preventDefault(), setError(null), setMessage(null), fetch is issued
LoginSubmit ==
    /\ location.pathname = Auth
    /\ authPage.pc = "idle"
    /\ authPage' = [pc |-> "fetch", live |-> TRUE, fetched |-> NoFetch,
                    error |-> Null, message |-> Null]
    /\ UNCHANGED <<jar, location, navbar, loggedOut, others>>

\* setError of the handler in flight, seen only on the instance that started it
LoginFails(a, msg) ==
    [a EXCEPT !.pc = "idle", !.fetched = NoFetch, !.error = IF a.live THEN msg ELSE @]

\* await fetch(.../auth/login) settles
LoginFetchSettles(outcome) ==
    /\ authPage.pc = "fetch"
    /\ authPage' = IF outcome.st = "threw"
                   THEN LoginFails(authPage, FetchFailedMessage)
                   ELSE [authPage EXCEPT !.pc = "json", !.fetched = outcome]
    /\ UNCHANGED <<jar, location, navbar, loggedOut, others>>

\* what handleLogin does once response.json() has settled: the message it
\* throws, or Null when it goes on to write the cookies
LoginError(fetched) ==
    IF fetched.body.kind = "notjson" THEN JsonFailedMessage
    ELSE IF fetched.body.kind = "null" THEN NullBodyMessage
    ELSE IF ~fetched.ok
    THEN IF Truthy(fetched.body.detail) THEN fetched.body.detail ELSE "Login failed"
    ELSE Null

\* variant: the cookies are written before the status is looked at
LoginJsonSettles_WritesFirst ==
    /\ authPage.pc = "json"
    /\ LET msg == LoginError(authPage.fetched)
       IN  IF authPage.fetched.body.kind \in {"notjson", "null"}
           THEN /\ authPage' = LoginFails(authPage, msg)
                /\ UNCHANGED <<jar, location, navbar, loggedOut>>
           ELSE /\ jar' = [access_token |-> JsCookieWrite(authPage.fetched.body.access_token),
                           refresh_token |-> JsCookieWrite(authPage.fetched.body.refresh_token)]
                /\ IF msg # Null
                   THEN /\ authPage' = LoginFails(authPage, msg)
                        /\ UNCHANGED <<location, navbar, loggedOut>>
                   ELSE /\ location' = [pathname |-> Home, next |-> <<>>]
                        /\ navbar' = [isAuthenticated |->
                                 Truthy(JsCookieWrite(authPage.fetched.body.access_token))]
                        /\ authPage' = [authPage EXCEPT !.pc = "idle", !.fetched = NoFetch]
                        /\ loggedOut' = FALSE
    /\ UNCHANGED others

\* await response.json() settles, up to the end of handleLogin
LoginJsonSettles ==
    /\ authPage.pc = "json"
    /\ LET msg == LoginError(authPage.fetched)
       IN  IF msg # Null
           THEN /\ authPage' = LoginFails(authPage, msg)
                /\ UNCHANGED <<jar, location, navbar, loggedOut>>
           ELSE /\ jar' = [access_token |-> JsCookieWrite(authPage.fetched.body.access_token),
                           refresh_token |-> JsCookieWrite(authPage.fetched.body.refresh_token)]
                /\ location' = [pathname |-> Home, next |-> <<>>]
                /\ navbar' = [isAuthenticated |->
                                 Truthy(JsCookieWrite(authPage.fetched.body.access_token))]
                /\ authPage' = [authPage EXCEPT !.pc = "idle", !.fetched = NoFetch]
                /\ loggedOut' = FALSE
    /\ UNCHANGED others

\* Navbar.handleLogout, behind the button that shows when isAuthenticated
handleLogout ==
    /\ location.pathname = Home
    /\ navbar.isAuthenticated
    /\ jar' = [access_token |-> Undefined, refresh_token |-> Undefined]
    /\ navbar' = [isAuthenticated |-> FALSE]
    /\ location' = [pathname |-> Auth, next |-> <<>>]
    /\ authPage' = MountAuthPage(authPage)
    /\ loggedOut' = TRUE
    /\ UNCHANGED others

\* the client goes to a path that the guard does not match
Visit(p) ==
    /\ ~matcher(p)
    /\ location' = [pathname |-> p, next |-> <<>>]
    /\ navbar' = IF p = Home THEN [isAuthenticated |-> Truthy(jar.access_token)] ELSE navbar
    /\ authPage' = IF p = Auth THEN MountAuthPage(authPage) ELSE authPage
    /\ UNCHANGED <<jar, loggedOut, others>>

\* a cookie expires (access_token one day, refresh_token seven days after
\* login) or goes with the browser session
ExpireCookie(n) ==
    /\ jar[n] # Undefined
    /\ jar' = [jar EXCEPT ![n] = Undefined]
    /\ UNCHANGED <<location, pages, others>>

\* the requests of a client are served one after the other
Next ==
    \/ \E i \in Sequential, p \in Paths : Middleware(i, p)
    \/ \E i \in Sequential, outcome \in FetchOutcomes : FetchSettles(i, outcome)
    \/ \E i \in Sequential : JsonSettles(i)
    \/ \E i \in Sequential : Deliver(i)

Spec == Init /\ [][Next]_vars

\* the renewal call settles and the runtime resumes the invocation
FairSpec ==
    /\ Spec
    /\ \A i \in Sequential :
          /\ WF_vars(\E outcome \in FetchOutcomes : FetchSettles(i, outcome))
          /\ WF_vars(JsonSettles(i))

\* two requests of a client are in flight at the same time
NextConcurrent ==
    \/ \E i \in Slots, p \in ConcurrentPaths : Middleware(i, p)
    \/ \E i \in Slots, outcome \in FetchOutcomes : FetchSettles(i, outcome)
    \/ \E i \in Slots : JsonSettles(i)
    \/ \E i \in Slots : Deliver(i)

SpecConcurrent == Init /\ [][NextConcurrent]_vars

\* a session of the client: navigation through the guard, login, logout
NextSession ==
    \/ \E i \in Sequential, p \in SessionPaths : Middleware(i, p)
    \/ \E i \in Sequential, outcome \in FetchOutcomes : FetchSettles(i, outcome)
    \/ \E i \in Sequential : JsonSettles(i)
    \/ \E i \in Sequential : Deliver(i)
    \/ LoginSubmit
    \/ \E outcome \in LoginOutcomes : LoginFetchSettles(outcome)
    \/ LoginJsonSettles
    \/ handleLogout
    \/ \E p \in SessionPaths : Visit(p)
    \/ \E n \in {"access_token", "refresh_token"} : ExpireCookie(n)

SpecSession == Init /\ [][NextSession]_vars

\* the renewal results of the two requests that are compared
ComparedOutcomes ==
    {o \in FetchOutcomes : o.st = "threw" \/ o.body.kind = "object"}

\* the logins between the two requests that are compared
ComparedLogins ==
    {o \in LoginOutcomes : o.st = "response" /\ o.ok /\ o.body.access_token # Undefined}

\* two requests for the same path, with a login of the client in between
NextCompared ==
    \/ \E i \in Slots : Middleware(i, MyBlogs)
    \/ \E i \in Slots, outcome \in ComparedOutcomes : FetchSettles(i, outcome)
    \/ \E i \in Slots : JsonSettles(i)
    \/ \E i \in Slots : Deliver(i)
    \/ Visit(Auth)
    \/ LoginSubmit
    \/ \E outcome \in ComparedLogins : LoginFetchSettles(outcome)
    \/ LoginJsonSettles

SpecCompared == Init /\ [][NextCompared]_vars

\* the reset link of the e-mail has been opened: ResetPasswordPage is mounted
InitReset ==
    /\ jar = [access_token |-> Undefined, refresh_token |-> Undefined]
    /\ inv = [i \in Slots |-> Idle]
    /\ calls = [i \in Slots |-> <<>>]
    /\ location = [pathname |-> <<"/", "r", "e", "s", "e", "t">>, next |-> <<>>]
    /\ navbar = [isAuthenticated |-> FALSE]
    /\ authPage = AuthPageMounted
    /\ loggedOut = FALSE
    /\ resetPage \in {ResetPageMounted(h) : h \in Hashes}
    /\ typewriter = TypewriterMounted(<< <<"a", "b">> >>)

NextReset ==
    \/ VerifyEffect
    \/ \E v \in Typed : SetPassword(v)
    \/ \E v \in Typed : SetConfirmPassword(v)
    \/ \E k \in 1..MaxInFlight : handleResetPassword(k)
    \/ \E k \in 1..MaxInFlight, outcome \in ResetOutcomes : ResetFetchSettles(k, outcome)
    \/ \E k \in 1..MaxInFlight : ResetJsonSettles(k)
    \/ ResetTimerFires

SpecReset == InitReset /\ [][NextReset]_vars

\* the home page is shown: Typewriter is mounted with some text prop
InitTypewriter ==
    /\ jar = [access_token |-> Undefined, refresh_token |-> Undefined]
    /\ inv = [i \in Slots |-> Idle]
    /\ calls = [i \in Slots |-> <<>>]
    /\ location = [pathname |-> Home, next |-> <<>>]
    /\ navbar = [isAuthenticated |-> FALSE]
    /\ authPage = AuthPageMounted
    /\ loggedOut = FALSE
    /\ resetPage = [ResetPageMounted(NoHash) EXCEPT !.mounted = FALSE]
    /\ typewriter \in {TypewriterMounted(text) : text \in Texts}

NextTypewriter ==
    \/ TickFires
    \/ WaitFires
    \/ CursorBlinks

SpecTypewriter == InitTypewriter /\ [][NextTypewriter]_vars

(***************************************************************************)
(* Vocabulary of the properties                                            *)
(***************************************************************************)
Started(i) == inv[i].pc # "idle"
Done(i)    == inv[i].pc = "done"

\* the response lets the request through and touches no cookie
PlainPassThrough(r) == r.kind = "next" /\ r.cookies = {} /\ r.url = NoUrl

\* the response sends the client to /auth?next=<path> and sets no cookie
LoginRedirectFor(r, path) ==
    /\ r.kind = "redirect"
    /\ r.url.pathname = <<"/", "a", "u", "t", "h">>
    /\ NextParam(r) = path
    /\ r.cookies = {}

\* the response lets the request through and sets access_token = t
PassThroughWithToken(r, t) ==
    /\ r.kind = "next"
    /\ r.url = NoUrl
    /\ r.cookies = {[name |-> "access_token", value |-> t, path |-> <<"/">>,
                     secure |-> TRUE, sameSite |-> "strict"]}

\* the renewal endpoint answered with a success status and a JSON object
Succeeded(f) == f.st = "response" /\ f.ok /\ f.body.kind = "object"

\* the one renewal call of an invocation: POST with its refresh token
OneRenewalCall(i) ==
    /\ Len(calls[i]) = 1
    /\ calls[i][1].method = "POST"
    /\ calls[i][1].url = "/auth/refresh"
    /\ calls[i][1].body = [refresh_token |-> inv[i].refreshToken]

(***************************************************************************)
(* C1: a request with an access_token cookie passes through untouched      *)
(***************************************************************************)
\* C1 as stated: whenever the access_token cookie is present in the request
\* (whatever its value), the response is a plain pass-through, without
\* cookie, redirect or renewal call.
C1_AsStated ==
    \A i \in Slots :
        (Started(i) /\ inv[i].accessToken # Undefined) =>
            /\ Done(i)
            /\ PlainPassThrough(inv[i].response)
            /\ calls[i] = <<>>

\* C1 amended: whenever the access_token cookie is present with a non-empty
\* value, the invocation returns at once with a plain pass-through response
\* (no cookie, no redirect) and makes no renewal call, whatever the
\* refresh_token cookie holds.
C1_PresentTokenPassesThrough ==
    \A i \in Slots :
        (Started(i) /\ inv[i].accessToken # Undefined /\ inv[i].accessToken # "") =>
            /\ Done(i)
            /\ PlainPassThrough(inv[i].response)
            /\ calls[i] = <<>>

C1_Witness ==
    \E i \in Slots :
        /\ Done(i)
        /\ inv[i].accessToken = "t1"
        /\ inv[i].refreshToken = "r1"
        /\ inv[i].response.kind = "next"

(***************************************************************************)
(* C2: no cookie at all redirects to /auth?next=<path>                     *)
(***************************************************************************)
\* C2: when both cookies are absent from the request, the invocation returns
\* a redirect to /auth whose next parameter reads back as the requested
\* path, and it makes no renewal call.
C2_NoCredentialsRedirect ==
    \A i \in Slots :
        (Started(i) /\ inv[i].accessToken = Undefined /\ inv[i].refreshToken = Undefined) =>
            /\ Done(i)
            /\ LoginRedirectFor(inv[i].response, inv[i].pathname)
            /\ calls[i] = <<>>

C2_Witness ==
    \E i \in Slots :
        /\ Done(i)
        /\ inv[i].accessToken = Undefined
        /\ inv[i].refreshToken = Undefined
        /\ inv[i].response.kind = "redirect"
        /\ inv[i].pathname = <<"/", "m", "y", "-", "b", "l", "o", "g", "s", "/", "+">>

(***************************************************************************)
(* C3: one renewal call, never a second                                    *)
(***************************************************************************)
\* C3 as stated: with the access_token cookie absent and the refresh_token
\* cookie present the invocation makes exactly one renewal call carrying
\* that refresh token, and in every other case it makes none.
C3_AsStated ==
    \A i \in Slots :
        Started(i) =>
            IF inv[i].accessToken = Undefined /\ inv[i].refreshToken # Undefined
            THEN OneRenewalCall(i)
            ELSE calls[i] = <<>>

\* C3 amended: with the access token absent or empty and the refresh token
\* present and non-empty, the invocation makes exactly one renewal call
\* (POST, body {refresh_token: that token}) from its start to its return,
\* whatever the call results in; in every other case it makes none.
C3_ExactlyOneRenewalCall ==
    \A i \in Slots :
        Started(i) =>
            IF /\ inv[i].accessToken \in {Undefined, ""}
               /\ inv[i].refreshToken \notin {Undefined, ""}
            THEN OneRenewalCall(i)
            ELSE calls[i] = <<>>

C3_Witness ==
    \E i \in Slots :
        /\ Done(i)
        /\ inv[i].fetched.st = "threw"
        /\ inv[i].refreshToken = "r2"
        /\ Len(calls[i]) = 1

(***************************************************************************)
(* C4: a successful renewal passes through with the new cookie             *)
(***************************************************************************)
\* C4: when the renewal endpoint answers with a success status and a body
\* {access_token: T}, the response is a pass-through that carries the cookie
\* access_token = T with path '/', secure and sameSite strict.
C4_RenewedTokenCookie ==
    \A i \in Slots :
        (Done(i) /\ Succeeded(inv[i].fetched)
                 /\ inv[i].fetched.body.access_token # Undefined) =>
            PassThroughWithToken(inv[i].response, inv[i].fetched.body.access_token)

C4_Witness ==
    \E i \in Slots :
        /\ Done(i)
        /\ inv[i].accessToken = Undefined
        /\ inv[i].refreshToken = "r1"
        /\ Succeeded(inv[i].fetched)
        /\ inv[i].fetched.body.access_token = "t2"
        /\ inv[i].response.cookies # {}

(***************************************************************************)
(* C5: a rejected renewal redirects like the no-credentials case           *)
(***************************************************************************)
\* C5: when the renewal endpoint answers with a non-success status the
\* response is the redirect of the no-credentials case for the same path and
\* sets no cookie; a response carries a cookie only if a renewal call was
\* made and answered with a success status, and a redirect carries none.
C5_RejectedRenewalRedirect ==
    \A i \in Slots :
        Done(i) =>
            /\ (inv[i].fetched.st = "response" /\ ~inv[i].fetched.ok) =>
                    /\ inv[i].response = RedirectNoTokens(inv[i].pathname)
                    /\ LoginRedirectFor(inv[i].response, inv[i].pathname)
            /\ inv[i].response.cookies # {} =>
                    /\ Len(calls[i]) = 1
                    /\ inv[i].fetched.st = "response"
                    /\ inv[i].fetched.ok
            /\ inv[i].response.kind = "redirect" => inv[i].response.cookies = {}

C5_Witness ==
    \E i \in Slots :
        /\ Done(i)
        /\ inv[i].fetched.st = "response"
        /\ ~inv[i].fetched.ok
        /\ inv[i].fetched.body.detail = "Invalid refresh token"
        /\ inv[i].response.kind = "redirect"

(***************************************************************************)
(* C6: a renewal call that throws redirects like a rejected one            *)
(***************************************************************************)
\* C6: when the renewal call throws, in fetch or while the body is read, the
\* response is a redirect to /auth with next = the requested path and no
\* cookie, the same as when the endpoint rejects the renewal.
C6_ThrownRenewalRedirect ==
    \A i \in Slots :
        (Done(i) /\ (\/ inv[i].fetched.st = "threw"
                     \/ (inv[i].fetched.st = "response" /\
                         inv[i].fetched.body.kind \in {"notjson", "null"}))) =>
            /\ LoginRedirectFor(inv[i].response, inv[i].pathname)
            /\ inv[i].response =
                 AfterJson(inv[i].pathname,
                           [st |-> "response", ok |-> FALSE,
                            body |-> [kind |-> "object", access_token |-> Undefined,
                                      detail |-> "Invalid refresh token"]]).response

C6_Witness ==
    \E i \in Slots :
        /\ Done(i)
        /\ inv[i].fetched.st = "threw"
        /\ inv[i].response.kind = "redirect"
        /\ inv[i].pathname = <<"/", "a", "c", "c", "o", "u", "n", "t", "/", "%">>

(***************************************************************************)
(* C7: the guard never writes the refresh_token cookie                     *)
(***************************************************************************)
\* a step of the guard or of the delivery of its response to the client
GuardStep ==
    \E i \in Slots :
        \/ \E p \in Paths : Middleware(i, p)
        \/ \E outcome \in FetchOutcomes : FetchSettles(i, outcome)
        \/ JsonSettles(i)
        \/ Deliver(i)

\* C7: no step of the guard, and no delivery of one of its responses,
\* changes the client's refresh_token cookie, and the only cookie a response
\* of the guard sets is access_token.
C7_RefreshTokenNeverWritten ==
    [][GuardStep =>
         /\ jar'.refresh_token = jar.refresh_token
         /\ \A i \in Slots : \A c \in inv'[i].response.cookies : c.name = "access_token"]_vars

C7_Witness ==
    \E i \in Slots :
        /\ Done(i)
        /\ inv[i].response.cookies # {}
        /\ jar.refresh_token = "r1"
        /\ inv[i].refreshToken = "r1"

(***************************************************************************)
(* C8: every invocation ends with one of three responses                   *)
(***************************************************************************)
\* C8: an invocation never ends with an exception; when it has returned, its
\* response is a plain pass-through, a pass-through with an access_token
\* cookie, or a redirect to login; and once its renewal call is issued it
\* does return, provided the call settles.
C8_AlwaysOneResponse ==
    /\ [](\A i \in Slots :
            /\ inv[i].pc \in {"idle", "fetch", "json", "done"}
            /\ Done(i) =>
                 \/ PlainPassThrough(inv[i].response)
                 \/ \E t \in AccessTokens : PassThroughWithToken(inv[i].response, t)
                 \/ LoginRedirectFor(inv[i].response, inv[i].pathname))
    /\ \A i \in Sequential : (inv[i].pc \in {"fetch", "json"}) ~> Done(i)

C8_Witness ==
    \E i \in Slots :
        /\ Done(i)
        /\ inv[i].fetched.st = "response"
        /\ inv[i].fetched.body.kind = "null"
        /\ inv[i].response.kind = "redirect"

(***************************************************************************)
(* C9: simultaneous requests are independent invocations                   *)
(***************************************************************************)
\* the request of invocation i carries no usable access token and a refresh token
NeedsRenewal(i) ==
    /\ Started(i)
    /\ inv[i].accessToken \in {Undefined, ""}
    /\ inv[i].refreshToken \notin {Undefined, ""}

\* the response of invocation i is the one its own renewal result calls for
OwnResponse(i) ==
    IF Succeeded(inv[i].fetched)
    THEN PassThroughWithToken(inv[i].response,
             IF inv[i].fetched.body.access_token = Undefined
             THEN "" ELSE inv[i].fetched.body.access_token)
    ELSE LoginRedirectFor(inv[i].response, inv[i].pathname)

\* C9 as stated: two requests in flight together, access_token cookie absent
\* and refresh_token cookie present, make one renewal call each.
C9_AsStated ==
    \A i \in Slots : \A j \in Slots \ {i} :
        (/\ Started(i) /\ Started(j)
         /\ inv[i].accessToken = Undefined /\ inv[i].refreshToken # Undefined
         /\ inv[j].accessToken = Undefined /\ inv[j].refreshToken # Undefined) =>
            Len(calls[i]) + Len(calls[j]) = 2

\* C9 amended: two requests in flight together, without a usable access token
\* and with a non-empty refresh token, make one renewal call each (two in
\* total), neither waits for the other, and the response of each is the one
\* its own renewal result calls for.
C9_IndependentInvocations ==
    \A i \in Slots : \A j \in Slots \ {i} :
        (NeedsRenewal(i) /\ NeedsRenewal(j)) =>
            /\ OneRenewalCall(i)
            /\ Len(calls[i]) + Len(calls[j]) = 2
            /\ inv[i].pc = "fetch" => ENABLED (\E o \in FetchOutcomes : FetchSettles(i, o))
            /\ inv[i].pc = "json" => ENABLED JsonSettles(i)
            /\ Done(i) => OwnResponse(i)

C9_Witness ==
    /\ NeedsRenewal("A") /\ NeedsRenewal("B")
    /\ Done("A") /\ Done("B")
    /\ inv["A"].refreshToken = inv["B"].refreshToken
    /\ inv["A"].response.kind = "next"
    /\ inv["B"].response.kind = "redirect"
    /\ Len(calls["A"]) = 1 /\ Len(calls["B"]) = 1

(***************************************************************************)
(* C10: the guard is idempotent                                            *)
(***************************************************************************)
\* C10: two invocations with the same input (no usable access token, the same
\* refresh token, the same path) whose renewal calls succeed with the same
\* token return the same response, with the same access_token cookie value.
C10_Idempotent ==
    \A i \in Slots : \A j \in Slots \ {i} :
        (/\ Done(i) /\ Done(j)
         /\ NeedsRenewal(i)
         /\ inv[i].pathname = inv[j].pathname
         /\ inv[i].accessToken = inv[j].accessToken
         /\ inv[i].refreshToken = inv[j].refreshToken
         /\ Succeeded(inv[i].fetched)
         /\ inv[i].fetched = inv[j].fetched) =>
            /\ inv[i].response = inv[j].response
            /\ {c.value : c \in inv[i].response.cookies} =
               {c.value : c \in inv[j].response.cookies}
            /\ inv[i].response.cookies # {}

C10_Witness ==
    /\ Done("A") /\ Done("B")
    /\ NeedsRenewal("A")
    /\ inv["A"].pathname = inv["B"].pathname
    /\ inv["A"].refreshToken = inv["B"].refreshToken
    /\ inv["A"].accessToken = inv["B"].accessToken
    /\ Succeeded(inv["A"].fetched)
    /\ inv["A"].fetched = inv["B"].fetched
    /\ inv["A"].fetched.body.access_token = "t1"
    /\ inv["B"].response.cookies # {}

(***************************************************************************)
(* C11: the guard treats the tokens as opaque                              *)
(***************************************************************************)
\* pass-through, pass-through with cookie, or redirect
KindOf(r) ==
    IF r.kind = "next" THEN (IF r.cookies = {} THEN "pass-through" ELSE "pass-through with cookie")
    ELSE r.kind

\* the two invocations have returned, for the same path and with the same
\* result of the renewal endpoint
Comparable(i, j) ==
    /\ Done(i) /\ Done(j)
    /\ inv[i].pathname = inv[j].pathname
    /\ inv[i].fetched = inv[j].fetched

SameAnswer(i, j) ==
    /\ KindOf(inv[i].response) = KindOf(inv[j].response)
    /\ NextParam(inv[i].response) = NextParam(inv[j].response)

\* C11 as stated: two requests for the same path that agree on which of the
\* two cookies are present and get the same renewal result get the same kind
\* of response with the same next, whatever the token strings are.
C11_AsStated ==
    \A i \in Slots : \A j \in Slots \ {i} :
        (/\ Comparable(i, j)
         /\ (inv[i].accessToken = Undefined) = (inv[j].accessToken = Undefined)
         /\ (inv[i].refreshToken = Undefined) = (inv[j].refreshToken = Undefined)) =>
            SameAnswer(i, j)

\* C11 amended: two requests for the same path that agree on which of the
\* two cookies are present with a non-empty value and get the same renewal
\* result get the same kind of response with the same next, whatever the
\* token strings are: the guard looks at a token only to see whether it is
\* empty.
C11_TokensAreOpaque ==
    \A i \in Slots : \A j \in Slots \ {i} :
        (/\ Comparable(i, j)
         /\ (inv[i].accessToken \in {Undefined, ""}) = (inv[j].accessToken \in {Undefined, ""})
         /\ (inv[i].refreshToken \in {Undefined, ""}) = (inv[j].refreshToken \in {Undefined, ""})) =>
            SameAnswer(i, j)

C11_Witness ==
    /\ Comparable("A", "B")
    /\ inv["A"].accessToken = "t1"
    /\ inv["B"].accessToken = "t2"
    /\ inv["A"].refreshToken = "r1"
    /\ inv["B"].refreshToken = "r2"
    /\ KindOf(inv["A"].response) = "pass-through"
    /\ KindOf(inv["B"].response) = "pass-through"

(***************************************************************************)
(* C12: a renewal response without a token                                 *)
(***************************************************************************)
\* the renewal endpoint answered with a success status and a body that holds
\* no access token
SucceededWithoutToken(f) ==
    /\ f.st = "response"
    /\ f.ok
    /\ f.body.access_token = Undefined

\* C12: whenever the renewal endpoint answers with a success status and a
\* body from which no access token can be extracted (not JSON, or JSON
\* without access_token), the response is a redirect to login without cookie;
\* an access_token cookie is only written with a token that the body holds.
C12_AsStated ==
    \A i \in Slots :
        Done(i) =>
            /\ SucceededWithoutToken(inv[i].fetched) =>
                    LoginRedirectFor(inv[i].response, inv[i].pathname)
            /\ \A c \in inv[i].response.cookies :
                    /\ inv[i].fetched.body.access_token # Undefined
                    /\ c.value = inv[i].fetched.body.access_token

(***************************************************************************)
(* C13: the next parameter and the login flow                              *)
(***************************************************************************)
\* handleLogin comes to its end with the cookies written
LoginSucceeds ==
    /\ authPage.pc = "json"
    /\ authPage'.pc = "idle"
    /\ authPage.fetched.ok
    /\ authPage.fetched.body.kind = "object"

\* C13: when the client is at /auth?next=P after a redirect of the guard and
\* handleLogin succeeds, the client is forwarded to P.
C13_AsStated ==
    [][(LoginSucceeds /\ location.pathname = Auth /\ location.next # <<>>) =>
           location'.pathname = UrlDecode(location.next)]_vars

(***************************************************************************)
(* C14: logout closes the session for the guard                            *)
(***************************************************************************)
\* C14: after handleLogout and until a handleLogin succeeds, every request
\* for a guarded path returns at once with a redirect to /auth, without a
\* call to the renewal endpoint.
C14_AsStated ==
    [][\A i \in Slots :
          (loggedOut /\ inv[i].pc = "idle" /\ inv'[i].pc # "idle") =>
              /\ inv'[i].pc = "done"
              /\ LoginRedirectFor(inv'[i].response, inv'[i].pathname)
              /\ calls'[i] = <<>>]_vars

(***************************************************************************)
(* C15: handleLogin writes the cookies only on success                     *)
(***************************************************************************)
\* handleLogin comes to its end
LoginEnds == authPage.pc \in {"fetch", "json"} /\ authPage'.pc = "idle"

\* the step is the fetch of handleLogin being rejected
LoginFetchThrew == authPage.pc = "fetch" /\ authPage'.pc = "idle"

\* the cookies the login response asks for
LoginCookies(body) ==
    [access_token |-> IF body.access_token = Undefined THEN "undefined"
                      ELSE body.access_token,
     refresh_token |-> IF body.refresh_token = Undefined THEN "undefined"
                       ELSE body.refresh_token]

\* C15 as stated: handleLogin writes the cookies and navigates only on a
\* success status; otherwise the cookies and the location stay and error is
\* the detail of the service or 'Login failed'.
C15_AsStated ==
    [][LoginEnds =>
         IF LoginSucceeds
         THEN /\ jar' = LoginCookies(authPage.fetched.body)
              /\ location'.pathname = <<"/">>
         ELSE /\ jar' = jar
              /\ location' = location
              /\ authPage.live =>
                    authPage'.error \in {authPage.fetched.body.detail, "Login failed"} \ {Undefined, ""}]_vars

\* C15 amended: handleLogin writes the two cookies and navigates to / only
\* when the login endpoint answers with a success status and a JSON object;
\* otherwise the cookies and the location stay as they were and error is set
\* to the message of what was thrown (on the page instance that submitted,
\* while it is mounted): the detail of the service or 'Login failed' when a
\* rejection carries a JSON object, the message of the exception when fetch
\* or the reading of the body fails.
C15_LoginWritesOnlyOnSuccess ==
    [][LoginEnds =>
         IF LoginSucceeds
         THEN /\ jar' = LoginCookies(authPage.fetched.body)
              /\ location' = [pathname |-> <<"/">>, next |-> <<>>]
              /\ authPage'.error = Null
         ELSE /\ jar' = jar
              /\ location' = location
              /\ authPage.live =>
                    authPage'.error =
                        IF LoginFetchThrew THEN "Failed to fetch"
                        ELSE IF authPage.fetched.body.kind = "notjson" THEN "Unexpected token"
                        ELSE IF authPage.fetched.body.kind = "null"
                        THEN "Cannot read properties of null"
                        ELSE IF authPage.fetched.body.detail \notin {Undefined, ""}
                        THEN authPage.fetched.body.detail
                        ELSE "Login failed"]_vars

C15_Witness ==
    /\ authPage.pc = "idle"
    /\ authPage.error = "Invalid credentials"
    /\ location.pathname = Auth
    /\ jar.access_token = Undefined

(***************************************************************************)
(* C16: the error state of the reset-password page                         *)
(***************************************************************************)
\* the submissions in flight
InFlight(r) == {k \in 1..MaxInFlight : r.subs[k].pc # "idle"}

\* an error is set on the page
ErrorSet(r) == TruthyOrNull(r.error)

\* C16 as the specification states it: once an error is set on a page
\* instance, it stays set, no submission starts, and neither the success
\* message nor the navigation to /auth is ever reached.
C16_AsStated ==
    [][ (resetPage.mounted /\ ErrorSet(resetPage)) =>
            /\ ErrorSet(resetPage')
            /\ InFlight(resetPage') \subseteq InFlight(resetPage)
            /\ ~TruthyOrNull(resetPage'.message)
            /\ resetPage'.timers = 0
            /\ resetPage'.mounted ]_vars

(***************************************************************************)
(* C17: when handleResetPassword sends its request                         *)
(***************************************************************************)
\* this step sends a request to the reset-password endpoint
Sends ==
    \E k \in 1..MaxInFlight :
        resetPage.subs[k].pc = "idle" /\ resetPage'.subs[k].pc = "fetch"

\* this step is the effect taking the tokens of the fragment
AcceptsTokens == resetPage.isVerifying /\ resetPage'.accessToken # Null

\* handleResetPassword reports the mismatch whatever the tokens are
MismatchFirst ==
    \A a \in {Null, "", "a1"}, b \in {Null, "", "r1"} :
        LET r == [resetPage EXCEPT !.accessToken = a, !.refreshToken = b,
                                   !.password = "p", !.confirmPassword = "q"]
        IN  /\ AfterSubmit(r, 1).error = MismatchMessage
            /\ InFlight(AfterSubmit(r, 1)) = InFlight(r)

\* C17 as the specification states it: a request is sent only with equal
\* passwords and both tokens obtained; the mismatch is checked first; the
\* tokens are taken only when the fragment has no error_description and has
\* both tokens.
C17_AsStated ==
    /\ []MismatchFirst
    /\ [][ /\ Sends =>
                /\ resetPage.password = resetPage.confirmPassword
                /\ TruthyOrNull(resetPage.accessToken)
                /\ TruthyOrNull(resetPage.refreshToken)
           /\ AcceptsTokens =>
                /\ resetPage.hash.error_description = Null
                /\ resetPage.hash.access_token # Null
                /\ resetPage.hash.refresh_token # Null ]_vars

\* C17: a request is sent only with equal passwords and both tokens
\* obtained, and it carries them; the mismatch is checked first; the tokens
\* are taken only when the fragment has no non-empty error_description and
\* has both tokens, non-empty.
C17_SendsOnlyWhenValid ==
    /\ []MismatchFirst
    /\ [][ /\ Sends =>
                /\ resetPage.password = resetPage.confirmPassword
                /\ TruthyOrNull(resetPage.accessToken)
                /\ TruthyOrNull(resetPage.refreshToken)
                /\ \A k \in InFlight(resetPage') \ InFlight(resetPage) :
                      resetPage'.subs[k].request =
                          [access_token |-> resetPage.hash.access_token,
                           refresh_token |-> resetPage.hash.refresh_token,
                           new_password |-> resetPage.confirmPassword]
           /\ AcceptsTokens =>
                /\ ~TruthyOrNull(resetPage.hash.error_description)
                /\ TruthyOrNull(resetPage.hash.access_token)
                /\ TruthyOrNull(resetPage.hash.refresh_token)
                /\ resetPage'.accessToken = resetPage.hash.access_token
                /\ resetPage'.refreshToken = resetPage.hash.refresh_token ]_vars

\* a request is in flight, sent from a page whose fragment had an empty
\* error_description
C17_Witness ==
    /\ resetPage.hash.error_description = ""
    /\ \E k \in 1..MaxInFlight :
          /\ resetPage.subs[k].pc = "fetch"
          /\ resetPage.subs[k].request.new_password = "q"

(***************************************************************************)
(* C18: the invariants of Typewriter                                       *)
(***************************************************************************)
IsPrefix(s, w) == Len(s) <= Len(w) /\ SubSeq(w, 1, Len(s)) = s

\* the string that is being typed or deleted
CurrentWord(t) == t.text[t.currentIndex + 1]

TypewriterInv ==
    /\ typewriter.currentIndex \in 0..(Len(typewriter.text) - 1)
    /\ IsPrefix(typewriter.currentText, CurrentWord(typewriter))

\* a step of the callback that deletes, taken on the empty string
DeletesOnEmpty ==
    /\ typewriter.timeout.armed
    /\ ~typewriter'.timeout.armed \/ Deps(typewriter') # Deps(typewriter)
    /\ typewriter.isDeleting
    /\ typewriter.currentText = <<>>
    /\ typewriter'.waits = typewriter.waits
    /\ typewriter'.showCursor = typewriter.showCursor

====
